---- MODULE Spec2Model ----
(***************************************************************************)
(* Model of the address-set reference codec of go-controller/pkg/ovn       *)
(* (address_set.go): newAddressSetRef builds a display name and a hashed   *)
(* name from (ownerType, ipv6, ownerNamespace, ownerName, args...), and    *)
(* parseAddressSetRef recovers the components from a display name.         *)
(*                                                                         *)
(* A Go string is a sequence of one-character strings, so that             *)
(* strings.Join and strings.Split are computed character by character.     *)
(* A Go slice is a record [nil, elems]: Go tells a nil slice from an       *)
(* empty non-nil one (args == nil, address_set.go:46).  A *AddressSetRef   *)
(* is a record with a "nil" flag; the nil pointer carries no field.        *)
(*                                                                         *)
(* The module also models the calls of address_set.go on the address_set   *)
(* table of the OVN northbound database (SpecDB, SpecListing, and          *)
(* SpecCallers for concurrent callers) and the hybrid overlay master of    *)
(* go-controller/hybrid-overlay/pkg/controller (master.go): the subnet     *)
(* annotation parser (SpecSubnets), the node events (SpecMaster, and       *)
(* SpecWorkers for concurrent node workers) and the pod events (SpecPod).  *)
(***************************************************************************)
EXTENDS Integers, Sequences, FiniteSets, TLC

VARIABLES
    pc,           \* the call to make next ("new", "parseRef", "parse", "pair",
                  \* "done"), or where the running call stands
    op,           \* the call made last ("none" before the first one)
    tuple,        \* arguments of the last newAddressSetRef call
    ref,          \* *AddressSetRef returned by the last newAddressSetRef call
    displayName,  \* argument of the last parseAddressSetRef call
    parsed,       \* *AddressSetRef returned by the last parseAddressSetRef call
    other,        \* arguments of a second newAddressSetRef call (pair runs)
    otherRef,     \* *AddressSetRef returned by that second call
    ret,          \* what the call made last returned: "none", "nil", "error"
    db,           \* the address_set table of the OVN northbound database
    call,         \* the locals of a createAddressSet call between its commands
    visited,      \* the refs the last forEachAddressSet handed to iteratorFn
    annotation,   \* the hybrid overlay subnet annotation of the node handed to
                  \* ParseHybridOverlayHostSubnets
    hostsubnets,  \* what the last ParseHybridOverlayHostSubnets returned
    allocator,    \* MasterController.allocator: the subnets marked allocated
    apiNodes,     \* the nodes as the API server holds them
    nodeCache,    \* the nodes as the node informer holds them: the objects
                  \* handed to AddNode and DeleteNode
    ovnPorts,     \* per node, its hybrid overlay logical switch port in OVN
    obtained,     \* the subnets the last AddNode got from AllocateNetworks
    failed,       \* some AddNode or DeleteNode has returned an error
    namespace,    \* the hybrid overlay annotations of the pod's namespace
    pod,          \* the hybrid overlay annotations of the pod
    lookups,      \* the namespace lookups waitForNamespace has made
    lookupResult, \* what the last of them gave: "none" before the first,
                  \* "found", "notFound", "error"
    output,       \* the fields of the output of the find command of forEachAddressSet
    callers,      \* per concurrent caller, its call on the address_set table and where it stands
    returns,      \* the callers whose call has returned, in the order of their return
    workers       \* per node, where the node worker that runs AddNode on it stands

codecVars == <<tuple, ref, displayName, parsed, other, otherRef>>

dbVars == <<db, call, visited>>

subnetVars == <<annotation, hostsubnets>>

masterVars == <<allocator, apiNodes, nodeCache, ovnPorts, obtained, failed>>

podVars == <<namespace, pod, lookups, lookupResult>>

listingVars == <<output>>

callerVars == <<callers, returns>>

workerVars == <<workers>>

vars == <<pc, op, ret, codecVars, dbVars, subnetVars, masterVars, podVars, listingVars, callerVars, workerVars>>

----------------------------------------------------------------------------
(* Bounds *)

\* largest number of variadic args passed to newAddressSetRef
MaxArgs == 2

\* largest number of '.'-separated parts of a string handed to parseAddressSetRef
MaxParts == 6

\* largest number of variadic args in the runs that compare two references
MaxPairArgs == 1

----------------------------------------------------------------------------
(* Strings *)

Dot == "."

EmptyString == <<>>

\* the string literals of address_set.go
NamespaceType == <<"N","a","m","e","s","p","a","c","e">>
NetworkPolicyType == <<"N","e","t","w","o","r","k","P","o","l","i","c","y">>
TagV6 == <<"v","6">>
TagV4 == <<"v","4">>

\* strings.Join(parts, "."): "" for no parts, else the parts with one '.'
\* between neighbours
RECURSIVE Join(_)
Join(parts) ==
    IF Len(parts) = 0 THEN EmptyString
    ELSE IF Len(parts) = 1 THEN parts[1]
    ELSE parts[1] \o <<Dot>> \o Join(Tail(parts))

\* strings.Split(s, "."): cut at every '.', keeping empty parts; always at
\* least one part (Split("", ".") is [""])
RECURSIVE SplitFrom(_, _, _)
SplitFrom(s, i, cur) ==
    IF i > Len(s) THEN <<cur>>
    ELSE IF s[i] = Dot THEN <<cur>> \o SplitFrom(s, i + 1, EmptyString)
    ELSE SplitFrom(s, i + 1, Append(cur, s[i]))

Split(s) == SplitFrom(s, 1, EmptyString)

\* hashForOVN (defined outside the files at hand): a digest of the display
\* name, taken to be deterministic and collision free
hashForOVN(s) == <<"#">> \o s

----------------------------------------------------------------------------
(* Slices and references *)

NilSlice == [nil |-> TRUE, elems |-> <<>>]

Slice(elems) == [nil |-> FALSE, elems |-> elems]

\* nameParts[from:] of a slice with at least `from` elements (0-based from)
SliceFrom(parts, from) == Slice(SubSeq(parts, from + 1, Len(parts)))

NilRef == [nil |-> TRUE]

\* newAddressSetRef with one rule changed:
\*   "lenArgs"       the bare rule tests len(args) == 0 instead of args == nil
\*   "compactNoArgs" the compact rule leaves the args out
\*   "alwaysV4"      the general rule writes the v4 tag for both families
\*   "hashNamespace" the hashed name is the digest of ownerNamespace
\*   "bareAnyArgs"   the bare rule does not look at args
ChangedNewAddressSetRef(ownerType, ipv6, ownerNamespace, ownerName, args, change) ==
    LET bareArgs ==
            IF change = "lenArgs" THEN Len(args.elems) = 0
            ELSE IF change = "bareAnyArgs" THEN TRUE
            ELSE args.nil
        nameParts ==
            IF ownerType = NamespaceType /\ ~ipv6 /\ ownerName = EmptyString /\ bareArgs
            THEN <<ownerNamespace>>
            ELSE IF ownerType = NetworkPolicyType /\ ~ipv6
            THEN <<ownerNamespace, ownerName>>
                     \o (IF change = "compactNoArgs" THEN <<>> ELSE args.elems)
            ELSE <<EmptyString, ownerType>>
                     \o (IF ipv6 /\ change # "alwaysV4" THEN <<TagV6>> ELSE <<TagV4>>)
                     \o <<ownerNamespace, ownerName>> \o args.elems
        name == Join(nameParts)
    IN  [nil            |-> FALSE,
         OwnerType      |-> ownerType,
         OwnerNamespace |-> ownerNamespace,
         OwnerName      |-> ownerName,
         IPv6           |-> ipv6,
         Args           |-> args,
         DisplayName    |-> name,
         HashedName     |-> IF change = "hashNamespace"
                            THEN hashForOVN(ownerNamespace) ELSE hashForOVN(name)]

newAddressSetRef_LenArgs(ownerType, ipv6, ownerNamespace, ownerName, args) ==
    ChangedNewAddressSetRef(ownerType, ipv6, ownerNamespace, ownerName, args, "lenArgs")

newAddressSetRef_CompactNoArgs(ownerType, ipv6, ownerNamespace, ownerName, args) ==
    ChangedNewAddressSetRef(ownerType, ipv6, ownerNamespace, ownerName, args, "compactNoArgs")

newAddressSetRef_AlwaysV4(ownerType, ipv6, ownerNamespace, ownerName, args) ==
    ChangedNewAddressSetRef(ownerType, ipv6, ownerNamespace, ownerName, args, "alwaysV4")

newAddressSetRef_HashNamespace(ownerType, ipv6, ownerNamespace, ownerName, args) ==
    ChangedNewAddressSetRef(ownerType, ipv6, ownerNamespace, ownerName, args, "hashNamespace")

newAddressSetRef_BareAnyArgs(ownerType, ipv6, ownerNamespace, ownerName, args) ==
    ChangedNewAddressSetRef(ownerType, ipv6, ownerNamespace, ownerName, args, "bareAnyArgs")

\* newAddressSetRef whose general rule does not start nameParts with ""
newAddressSetRef_NoLeadingDot(ownerType, ipv6, ownerNamespace, ownerName, args) ==
    LET r == ChangedNewAddressSetRef(ownerType, ipv6, ownerNamespace, ownerName, args, "none")
        name == IF r.DisplayName # EmptyString /\ Head(r.DisplayName) = Dot
                   /\ ~(ownerType = NetworkPolicyType /\ ~ipv6)
                   /\ ~(ownerType = NamespaceType /\ ~ipv6 /\ ownerName = EmptyString /\ args.nil)
                THEN Tail(r.DisplayName) ELSE r.DisplayName
    IN  [r EXCEPT !.DisplayName = name, !.HashedName = hashForOVN(name)]

\* newAddressSetRef creates an AddressSetRef based on the arguments
newAddressSetRef(ownerType, ipv6, ownerNamespace, ownerName, args) ==
    LET nameParts ==
            IF ownerType = NamespaceType /\ ~ipv6 /\ ownerName = EmptyString /\ args.nil
            THEN <<ownerNamespace>>
            ELSE IF ownerType = NetworkPolicyType /\ ~ipv6
            THEN <<ownerNamespace, ownerName>> \o args.elems
            ELSE <<EmptyString, ownerType>>
                     \o (IF ipv6 THEN <<TagV6>> ELSE <<TagV4>>)
                     \o <<ownerNamespace, ownerName>> \o args.elems
        name == Join(nameParts)
    IN  [nil            |-> FALSE,
         OwnerType      |-> ownerType,
         OwnerNamespace |-> ownerNamespace,
         OwnerName      |-> ownerName,
         IPv6           |-> ipv6,
         Args           |-> args,
         DisplayName    |-> name,
         HashedName     |-> hashForOVN(name)]

\* parseAddressSetRef with one test changed: the tagged form is taken with
\* more than minTagged parts and its args start at part argsFrom (numbered
\* from 0); firstNonEmpty tells whether the compact form requires a
\* non-empty first part
ChangedParseAddressSetRef(name, minTagged, argsFrom, firstNonEmpty) ==
    LET nameParts == Split(name)
        base == [nil            |-> FALSE,
                 OwnerType      |-> EmptyString,
                 OwnerNamespace |-> EmptyString,
                 OwnerName      |-> EmptyString,
                 IPv6           |-> FALSE,
                 Args           |-> NilSlice,
                 DisplayName    |-> name,
                 HashedName     |-> hashForOVN(name)]
    IN  IF Len(nameParts) > minTagged /\ nameParts[1] = EmptyString
        THEN [base EXCEPT !.OwnerType = nameParts[2],
                          !.IPv6 = (nameParts[3] = TagV6),
                          !.OwnerNamespace = nameParts[4],
                          !.OwnerName = nameParts[5],
                          !.Args = SliceFrom(nameParts, argsFrom)]
        ELSE IF Len(nameParts) > 1 /\ (firstNonEmpty => nameParts[1] # EmptyString)
        THEN [base EXCEPT !.OwnerType = NetworkPolicyType,
                          !.IPv6 = FALSE,
                          !.OwnerNamespace = nameParts[1],
                          !.OwnerName = nameParts[2],
                          !.Args = SliceFrom(nameParts, 2)]
        ELSE IF Len(nameParts) = 1 /\ nameParts[1] # EmptyString
        THEN [base EXCEPT !.OwnerType = NamespaceType,
                          !.IPv6 = FALSE,
                          !.OwnerNamespace = nameParts[1]]
        ELSE NilRef

\* the args of the tagged form taken from nameParts[4:]
parseAddressSetRef_ArgsFrom4(name) == ChangedParseAddressSetRef(name, 5, 4, TRUE)

\* the tagged form taken with 5 parts or more
parseAddressSetRef_AtLeast5(name) == ChangedParseAddressSetRef(name, 4, 5, TRUE)

\* the compact form taken whatever the first part
parseAddressSetRef_AnyFirst(name) == ChangedParseAddressSetRef(name, 5, 5, FALSE)

\* the hashed name taken from the namespace part instead of the whole name
parseAddressSetRef_HashNamespace(name) ==
    LET r == ChangedParseAddressSetRef(name, 5, 5, TRUE)
    IN  IF r.nil THEN r ELSE [r EXCEPT !.HashedName = hashForOVN(r.OwnerNamespace)]

\* the compact form cut at the first '.' only: OwnerName is all the rest
parseAddressSetRef_NameRest(name) ==
    LET r == ChangedParseAddressSetRef(name, 5, 5, TRUE)
        nameParts == Split(name)
    IN  IF Len(nameParts) > 1 /\ nameParts[1] # EmptyString
        THEN [r EXCEPT !.OwnerName = Join(Tail(nameParts)), !.Args = Slice(<<>>)]
        ELSE r

\* parseAddressSetRef parses an AddressSetRef from its display name
\* (returning nil on error)
parseAddressSetRef(name) ==
    LET nameParts == Split(name)
        base == [nil            |-> FALSE,
                 OwnerType      |-> EmptyString,
                 OwnerNamespace |-> EmptyString,
                 OwnerName      |-> EmptyString,
                 IPv6           |-> FALSE,
                 Args           |-> NilSlice,
                 DisplayName    |-> name,
                 HashedName     |-> hashForOVN(name)]
    IN  IF Len(nameParts) > 5 /\ nameParts[1] = EmptyString
        THEN [base EXCEPT !.OwnerType = nameParts[2],
                          !.IPv6 = (nameParts[3] = TagV6),
                          !.OwnerNamespace = nameParts[4],
                          !.OwnerName = nameParts[5],
                          !.Args = SliceFrom(nameParts, 5)]
        ELSE IF Len(nameParts) > 1 /\ nameParts[1] # EmptyString
        THEN [base EXCEPT !.OwnerType = NetworkPolicyType,
                          !.IPv6 = FALSE,
                          !.OwnerNamespace = nameParts[1],
                          !.OwnerName = nameParts[2],
                          !.Args = SliceFrom(nameParts, 2)]
        ELSE IF Len(nameParts) = 1 /\ nameParts[1] # EmptyString
        THEN [base EXCEPT !.OwnerType = NamespaceType,
                          !.IPv6 = FALSE,
                          !.OwnerNamespace = nameParts[1]]
        ELSE NilRef

\* the accesses to nameParts that parseAddressSetRef makes on its way through
\* the tests (&& does not evaluate its right side when the left one fails):
\* index, the positions read as nameParts[i], and sliceFrom, the lower bounds
\* of nameParts[i:], all numbered from 0.  compactMin is the length the
\* compact test requires to be exceeded (1 in the code).
AccessesOfParse(name, compactMin) ==
    LET nameParts == Split(name)
        n == Len(nameParts)
        first == nameParts[1]
    IN  IF n > 5 /\ first = EmptyString
        THEN [index |-> {0, 1, 2, 3, 4}, sliceFrom |-> {5}]
        ELSE IF n > compactMin /\ first # EmptyString
        THEN [index |-> {0, 1}, sliceFrom |-> {2}]
        ELSE IF n = 1 /\ first # EmptyString
        THEN [index |-> {0}, sliceFrom |-> {}]
        ELSE [index |-> IF n > 5 \/ n > compactMin \/ n = 1 THEN {0} ELSE {},
              sliceFrom |-> {}]

\* the compact test written len(nameParts) > 0
parseAddressSetRefAccesses_CompactAtLeast1(name) == AccessesOfParse(name, 0)

parseAddressSetRefAccesses(name) == AccessesOfParse(name, 1)

----------------------------------------------------------------------------
(* Inputs *)

\* component strings the callers pass: empty, plain, and with a '.' inside
Components == {EmptyString, <<"a">>, <<"b">>, <<"a", Dot, "b">>}

\* owner types: the two the encoder singles out, another one, the empty one
\* and one with a '.' inside
OwnerTypes == {NamespaceType, NetworkPolicyType, <<"P">>, EmptyString, <<"P", Dot, "Q">>}

\* the sequences over S of length at most n
SeqsUpTo(S, n) == UNION {[1..k -> S] : k \in 0..n}

\* the variadic args: none passed (nil), an explicitly passed empty slice, or
\* up to n strings
ArgSlices(n) == {NilSlice} \cup {Slice(e) : e \in SeqsUpTo(Components, n)}

Tuples(n) ==
    [ownerType : OwnerTypes, ipv6 : BOOLEAN, ownerNamespace : Components,
     ownerName : Components, args : ArgSlices(n)]

\* the smaller input sets of the runs that compare two references
PairComponents == {EmptyString, <<"a">>, <<"b">>}

PairTypes == {NamespaceType, NetworkPolicyType, <<"P">>}

PairTuples ==
    [ownerType : PairTypes, ipv6 : BOOLEAN, ownerNamespace : PairComponents,
     ownerName : PairComponents,
     args : {NilSlice} \cup {Slice(e) : e \in SeqsUpTo(PairComponents, MaxPairArgs)}]

\* the parts from which the strings handed to parseAddressSetRef are joined
Parts == {EmptyString, <<"a">>, TagV6, TagV4}

\* every string over the characters of Parts with at most MaxParts parts
DisplayNames == {Join(p) : p \in (SeqsUpTo(Parts, MaxParts) \ {<<>>})}

NoTuple ==
    [ownerType |-> EmptyString, ipv6 |-> FALSE, ownerNamespace |-> EmptyString,
     ownerName |-> EmptyString, args |-> NilSlice]

Encode(t) == newAddressSetRef(t.ownerType, t.ipv6, t.ownerNamespace, t.ownerName, t.args)

----------------------------------------------------------------------------
(* The parts of the state a run does not use stay at these values *)

NoCall == [ref |-> NilRef, addresses |-> <<>>, found |-> FALSE]

CodecUnused ==
    /\ tuple = NoTuple
    /\ ref = NilRef
    /\ displayName = EmptyString
    /\ parsed = NilRef
    /\ other = NoTuple
    /\ otherRef = NilRef

DBUnused ==
    /\ db = <<>>
    /\ call = NoCall
    /\ visited = <<>>

SubnetsUnused ==
    /\ annotation = [present |-> FALSE]
    /\ hostsubnets = [subnets |-> NilSlice, err |-> FALSE]

MasterUnused ==
    /\ allocator = {}
    /\ apiNodes = <<>>
    /\ nodeCache = <<>>
    /\ ovnPorts = <<>>
    /\ obtained = {}
    /\ failed = FALSE

PodUnused ==
    /\ namespace = <<>>
    /\ pod = <<>>
    /\ lookups = 0
    /\ lookupResult = "none"

ListingUnused ==
    output = <<>>

CallersUnused ==
    /\ callers = <<>>
    /\ returns = <<>>

WorkersUnused ==
    workers = <<>>

\* what a call of the codec leaves alone
CodecFrame == UNCHANGED <<ret, dbVars, subnetVars, masterVars, podVars, listingVars, callerVars, workerVars>>

\* what a call on the database leaves alone
DBFrame == UNCHANGED <<codecVars, subnetVars, masterVars, podVars, listingVars, callerVars, workerVars>>

\* what a call of ParseHybridOverlayHostSubnets leaves alone
SubnetsFrame == UNCHANGED <<codecVars, dbVars, masterVars, podVars, listingVars, callerVars, workerVars>>

\* what a node event leaves alone
MasterFrame == UNCHANGED <<codecVars, dbVars, subnetVars, podVars, listingVars, callerVars, workerVars>>

\* what a pod event leaves alone
PodFrame == UNCHANGED <<codecVars, dbVars, subnetVars, masterVars, listingVars, callerVars, workerVars>>

\* what a forEachAddressSet on a given output leaves alone
ListingFrame == UNCHANGED <<codecVars, subnetVars, masterVars, podVars, callerVars, workerVars>>

\* what a step of a concurrent caller leaves alone
CallersFrame == UNCHANGED <<codecVars, subnetVars, masterVars, podVars, listingVars, workerVars>>

\* what a step of a node worker leaves alone
WorkersFrame == UNCHANGED <<codecVars, dbVars, subnetVars, podVars, listingVars, callerVars>>

----------------------------------------------------------------------------
(* The codec as a state machine.  A run is one use of the codec: the       *)
(* caller's inputs are drawn in the initial state and each action is one   *)
(* call.  The codec keeps no state between calls.                          *)

\* a caller is about to build a reference from a tuple
InitNew ==
    /\ pc = "new"
    /\ op = "none"
    /\ tuple \in Tuples(MaxArgs)
    /\ ref = NilRef
    /\ displayName = EmptyString
    /\ parsed = NilRef
    /\ other = NoTuple
    /\ otherRef = NilRef
    /\ ret = "none"
    /\ DBUnused
    /\ SubnetsUnused
    /\ MasterUnused
    /\ PodUnused
    /\ ListingUnused
    /\ CallersUnused
    /\ WorkersUnused

\* a caller is about to parse a display name read from the database
InitParse ==
    /\ pc = "parse"
    /\ op = "none"
    /\ tuple = NoTuple
    /\ ref = NilRef
    /\ displayName \in DisplayNames
    /\ parsed = NilRef
    /\ other = NoTuple
    /\ otherRef = NilRef
    /\ ret = "none"
    /\ DBUnused
    /\ SubnetsUnused
    /\ MasterUnused
    /\ PodUnused
    /\ ListingUnused
    /\ CallersUnused
    /\ WorkersUnused

Init == InitNew \/ InitParse

\* newAddressSetRef(tuple)
NewRef ==
    /\ pc = "new"
    /\ pc' = "parseRef"
    /\ op' = "new"
    /\ ref' = Encode(tuple)
    /\ UNCHANGED <<tuple, displayName, parsed, other, otherRef>>
    /\ CodecFrame

\* parseAddressSetRef(ref.DisplayName): the reference built is parsed back
ParseRef ==
    /\ pc = "parseRef"
    /\ pc' = "done"
    /\ op' = "parseRef"
    /\ displayName' = ref.DisplayName
    /\ parsed' = parseAddressSetRef(ref.DisplayName)
    /\ UNCHANGED <<tuple, ref, other, otherRef>>
    /\ CodecFrame

\* parseAddressSetRef(displayName)
ParseName ==
    /\ pc = "parse"
    /\ pc' = "done"
    /\ op' = "parse"
    /\ parsed' = parseAddressSetRef(displayName)
    /\ UNCHANGED <<tuple, ref, displayName, other, otherRef>>
    /\ CodecFrame

Next == NewRef \/ ParseRef \/ ParseName

Spec == Init /\ [][Next]_vars

----------------------------------------------------------------------------
(* Two references built side by side *)

InitPair ==
    /\ pc = "pair"
    /\ op = "none"
    /\ tuple \in PairTuples
    /\ other \in PairTuples
    /\ ref = NilRef
    /\ otherRef = NilRef
    /\ displayName = EmptyString
    /\ parsed = NilRef
    /\ ret = "none"
    /\ DBUnused
    /\ SubnetsUnused
    /\ MasterUnused
    /\ PodUnused
    /\ ListingUnused
    /\ CallersUnused
    /\ WorkersUnused

\* newAddressSetRef(tuple) and newAddressSetRef(other)
NewRefPair ==
    /\ pc = "pair"
    /\ pc' = "done"
    /\ op' = "pair"
    /\ ref' = Encode(tuple)
    /\ otherRef' = Encode(other)
    /\ UNCHANGED <<tuple, other, displayName, parsed>>
    /\ CodecFrame

NextPair == NewRefPair

SpecPair == InitPair /\ [][NextPair]_vars

----------------------------------------------------------------------------
(* The address_set table and the calls that run ovn-nbctl on it.           *)
(* A row is [name, externalIds, addresses]: externalIds is the list of     *)
(* key/value pairs of the external_ids column, addresses the set of the    *)
(* addresses column.  Rows are listed in the order of their creation.      *)
(* Any ovn-nbctl command may fail (the database cannot be reached) and     *)
(* then changes nothing.                                                   *)

NameKey == <<"n", "a", "m", "e">>

\* "name="
NamePrefix == NameKey \o <<"=">>

\* strings.HasPrefix(s, prefix)
HasPrefix(s, prefix) ==
    Len(s) >= Len(prefix) /\ SubSeq(s, 1, Len(prefix)) = prefix

\* the elements of a []string
Elems(strs) == {strs[i] : i \in 1..Len(strs)}

\* find address_set name=<name>: is the output non-empty
HasRow(d, name) == \E i \in 1..Len(d) : d[i].name = name

\* a create command that writes the name of the row into external-ids:name
NbctlCreate_HashedExternalId(d, name, extName, addresses) ==
    Append(d, [name        |-> name,
               externalIds |-> <<[key |-> NameKey, value |-> name]>>,
               addresses   |-> Elems(addresses)])

\* create address_set name=<name> external-ids:name=<extName> [addresses=...]
NbctlCreate(d, name, extName, addresses) ==
    Append(d, [name        |-> name,
               externalIds |-> <<[key |-> NameKey, value |-> extName]>>,
               addresses   |-> Elems(addresses)])

\* a set command that adds the addresses to those of the row
NbctlSetAddresses_Add(d, name, addresses) ==
    [i \in 1..Len(d) |->
        IF d[i].name = name
        THEN [d[i] EXCEPT !.addresses = @ \cup Elems(addresses)] ELSE d[i]]

\* set address_set <name> addresses=... and clear address_set <name> addresses
NbctlSetAddresses(d, name, addresses) ==
    [i \in 1..Len(d) |->
        IF d[i].name = name THEN [d[i] EXCEPT !.addresses = Elems(addresses)] ELSE d[i]]

\* add address_set <name> addresses "<address>"
NbctlAdd(d, name, address) ==
    [i \in 1..Len(d) |->
        IF d[i].name = name THEN [d[i] EXCEPT !.addresses = @ \cup {address}] ELSE d[i]]

\* remove address_set <name> addresses "<address>"
NbctlRemove(d, name, address) ==
    [i \in 1..Len(d) |->
        IF d[i].name = name THEN [d[i] EXCEPT !.addresses = @ \ {address}] ELSE d[i]]

\* --if-exists destroy address_set <name>
NbctlDestroy(d, name) == SelectSeq(d, LAMBDA row : row.name # name)

\* the output of --data=bare --no-heading --columns=external_ids find
\* address_set, cut by strings.Fields: one "key=value" field per pair
RECURSIVE FieldsOfPairs(_)
FieldsOfPairs(pairs) ==
    IF pairs = <<>> THEN <<>>
    ELSE <<Head(pairs).key \o <<"=">> \o Head(pairs).value>> \o FieldsOfPairs(Tail(pairs))

RECURSIVE ExternalIdsFields(_)
ExternalIdsFields(d) ==
    IF d = <<>> THEN <<>>
    ELSE FieldsOfPairs(Head(d).externalIds) \o ExternalIdsFields(Tail(d))

\* a loop that ends at the first field it cannot use
RECURSIVE IterateAddressSets_Break(_)
IterateAddressSets_Break(fields) ==
    IF fields = <<>> THEN <<>>
    ELSE LET addrSet == Head(fields)
             r == parseAddressSetRef(SubSeq(addrSet, 6, Len(addrSet)))
         IN  IF ~HasPrefix(addrSet, NamePrefix) THEN <<>>
             ELSE IF r.nil THEN <<>>
             ELSE <<r>> \o IterateAddressSets_Break(Tail(fields))

\* the loop of forEachAddressSet over the fields: the refs handed to
\* iteratorFn, in order
RECURSIVE IterateAddressSets(_)
IterateAddressSets(fields) ==
    IF fields = <<>> THEN <<>>
    ELSE LET addrSet == Head(fields)
             r == parseAddressSetRef(SubSeq(addrSet, 6, Len(addrSet)))
         IN  IF ~HasPrefix(addrSet, NamePrefix) THEN IterateAddressSets(Tail(fields))
             ELSE IF r.nil THEN IterateAddressSets(Tail(fields))
             ELSE <<r>> \o IterateAddressSets(Tail(fields))

\* the references the callers of this run use: a bare Namespace one, a
\* compact NetworkPolicy one, a tagged one with an arg and a tagged one
\* without args (the IPv6 Namespace reference)
DBTuples ==
    {[ownerType |-> NamespaceType, ipv6 |-> FALSE, ownerNamespace |-> <<"a">>,
      ownerName |-> EmptyString, args |-> NilSlice],
     [ownerType |-> NetworkPolicyType, ipv6 |-> FALSE, ownerNamespace |-> <<"a">>,
      ownerName |-> <<"b">>, args |-> Slice(<< <<"a">> >>)],
     [ownerType |-> NetworkPolicyType, ipv6 |-> TRUE, ownerNamespace |-> <<"a">>,
      ownerName |-> <<"b">>, args |-> Slice(<< <<"a">> >>)],
     [ownerType |-> NamespaceType, ipv6 |-> TRUE, ownerNamespace |-> <<"a">>,
      ownerName |-> EmptyString, args |-> NilSlice]}

DBRefs == {Encode(t) : t \in DBTuples}

AddressLists == {<<>>, <<"10.0.0.1">>, <<"10.0.0.1", "10.0.0.2">>}

InitDB ==
    /\ pc = "db"
    /\ op = "none"
    /\ ret = "none"
    /\ CodecUnused
    /\ DBUnused
    /\ SubnetsUnused
    /\ MasterUnused
    /\ PodUnused
    /\ ListingUnused
    /\ CallersUnused
    /\ WorkersUnused

\* createAddressSet, up to the return of its find command
CreateAddressSetFind ==
    /\ pc = "db"
    /\ \E r \in DBRefs, addresses \in AddressLists, up \in BOOLEAN :
          IF up
          THEN /\ pc' = "createWrite"
               /\ call' = [ref |-> r, addresses |-> addresses,
                           found |-> HasRow(db, r.HashedName)]
               /\ UNCHANGED <<op, ret>>
          ELSE /\ op' = "create"
               /\ ret' = "error"
               /\ UNCHANGED <<pc, call>>
    /\ visited' = <<>>
    /\ UNCHANGED db
    /\ DBFrame

\* createAddressSet, from the find result on: clear, set or create
CreateAddressSetWrite ==
    /\ pc = "createWrite"
    /\ pc' = "db"
    /\ op' = "create"
    /\ call' = NoCall
    /\ \E up \in BOOLEAN :
          LET name == call.ref.HashedName
              rowThere == HasRow(db, name)
          IN  IF call.found
              THEN \* clear (no addresses) or set: fails without the row
                   IF up /\ rowThere
                   THEN db' = NbctlSetAddresses(db, name, call.addresses) /\ ret' = "nil"
                   ELSE db' = db /\ ret' = "error"
              ELSE \* create: fails when the name is taken (name is an index)
                   IF up /\ ~rowThere
                   THEN db' = NbctlCreate(db, name, call.ref.DisplayName, call.addresses)
                            /\ ret' = "nil"
                   ELSE db' = db /\ ret' = "error"
    /\ UNCHANGED visited
    /\ DBFrame

Addresses == UNION {Elems(addresses) : addresses \in AddressLists}

\* addToAddressSet: the command fails without the row
AddToAddressSet ==
    /\ pc = "db"
    /\ op' = "add"
    /\ \E r \in DBRefs, address \in Addresses, up \in BOOLEAN :
          IF up /\ HasRow(db, r.HashedName)
          THEN db' = NbctlAdd(db, r.HashedName, address) /\ ret' = "nil"
          ELSE db' = db /\ ret' = "error"
    /\ visited' = <<>>
    /\ UNCHANGED <<pc, call>>
    /\ DBFrame

\* removeFromAddressSet: the command fails without the row
RemoveFromAddressSet ==
    /\ pc = "db"
    /\ op' = "remove"
    /\ \E r \in DBRefs, address \in Addresses, up \in BOOLEAN :
          IF up /\ HasRow(db, r.HashedName)
          THEN db' = NbctlRemove(db, r.HashedName, address) /\ ret' = "nil"
          ELSE db' = db /\ ret' = "error"
    /\ visited' = <<>>
    /\ UNCHANGED <<pc, call>>
    /\ DBFrame

\* deleteAddressSet
DeleteAddressSet ==
    /\ pc = "db"
    /\ op' = "delete"
    /\ \E r \in DBRefs, up \in BOOLEAN :
          IF up
          THEN db' = NbctlDestroy(db, r.HashedName) /\ ret' = "nil"
          ELSE db' = db /\ ret' = "error"
    /\ visited' = <<>>
    /\ UNCHANGED <<pc, call>>
    /\ DBFrame

\* forEachAddressSet(iteratorFn)
ForEachAddressSet ==
    /\ pc = "db"
    /\ op' = "forEach"
    /\ \E up \in BOOLEAN :
          IF up
          THEN visited' = IterateAddressSets(ExternalIdsFields(db)) /\ ret' = "nil"
          ELSE visited' = <<>> /\ ret' = "error"
    /\ UNCHANGED <<pc, db, call>>
    /\ DBFrame

NextDB ==
    \/ CreateAddressSetFind
    \/ CreateAddressSetWrite
    \/ AddToAddressSet
    \/ RemoveFromAddressSet
    \/ DeleteAddressSet
    \/ ForEachAddressSet

SpecDB == InitDB /\ [][NextDB]_vars

----------------------------------------------------------------------------
(* The hybrid overlay subnet annotation of a node.                         *)
(* An annotation is absent or has a value; the values are told apart by    *)
(* what net.ParseCIDR and json.Unmarshal (into a []string) make of them:   *)
(*   [kind "cidr", subnet, hostBits]  a CIDR such as 10.1.0.0/24, or       *)
(*                                    10.1.0.5/24 when hostBits is set     *)
(*   [kind "list", items]             a JSON list; an item is a JSON       *)
(*                                    string, null or a number             *)
(*   [kind "null"]                    the JSON document null               *)
(*   [kind "object"]                  another JSON document, such as {}    *)
(*   [kind "text"]                    anything else, such as blah          *)

\* the largest number of items of a JSON list in an annotation
MaxItems == 2

Subnets == {"10.1.0.0/24", "10.1.1.0/24"}

CIDRTexts == [kind : {"cidr"}, subnet : Subnets, hostBits : BOOLEAN]

BadText == [kind |-> "text"]

\* the zero value "" that json.Unmarshal leaves in the place of a null item
EmptyText == [kind |-> "empty"]

JSONItems ==
    [kind : {"string"}, text : CIDRTexts \cup {BadText}]
        \cup {[kind |-> "null"], [kind |-> "number"]}

AnnotationValues ==
    CIDRTexts
        \cup {[kind |-> "list", items |-> items] : items \in SeqsUpTo(JSONItems, MaxItems)}
        \cup {[kind |-> "null"], [kind |-> "object"], BadText}

Annotations ==
    {[present |-> FALSE]} \cup {[present |-> TRUE, value |-> v] : v \in AnnotationValues}

\* net.ParseCIDR(text): the network of a CIDR (10.1.0.5/24 gives
\* 10.1.0.0/24), an error for any other text
ParseCIDR(text) ==
    IF text.kind = "cidr"
    THEN [err |-> FALSE, subnet |-> text.subnet]
    ELSE [err |-> TRUE]

\* json.Unmarshal([]byte(annotation), &subnetStrings): a list of strings and
\* nulls gives the strings, a null leaving ""; the document null gives no
\* error and leaves the nil slice; everything else is an error
UnmarshalStrings(value) ==
    IF value.kind = "null" THEN [err |-> FALSE, strings |-> <<>>]
    ELSE IF value.kind = "list"
            /\ \A i \in 1..Len(value.items) : value.items[i].kind \in {"string", "null"}
    THEN [err |-> FALSE,
          strings |-> [i \in 1..Len(value.items) |->
                          IF value.items[i].kind = "string"
                          THEN value.items[i].text ELSE EmptyText]]
    ELSE [err |-> TRUE]

\* a ParseHybridOverlayHostSubnets that knows the single-stack form only
ParseHybridOverlayHostSubnets_SingleOnly(ann) ==
    IF ~ann.present THEN [subnets |-> NilSlice, err |-> FALSE]
    ELSE IF ~ParseCIDR(ann.value).err
    THEN [subnets |-> Slice(<<ParseCIDR(ann.value).subnet>>), err |-> FALSE]
    ELSE [subnets |-> NilSlice, err |-> TRUE]

\* ParseHybridOverlayHostSubnets returns the parsed hybrid overlay
\* hostsubnet(s) if there is a valid annotation, or nil if there is no
\* annotation.  If one was included, but it is invalid, an error is returned.
ParseHybridOverlayHostSubnets(ann) ==
    IF ~ann.present THEN [subnets |-> NilSlice, err |-> FALSE]
    ELSE IF ~ParseCIDR(ann.value).err
    THEN [subnets |-> Slice(<<ParseCIDR(ann.value).subnet>>), err |-> FALSE]
    ELSE LET u == UnmarshalStrings(ann.value)
         IN  IF u.err THEN [subnets |-> NilSlice, err |-> TRUE]
             ELSE IF \E i \in 1..Len(u.strings) : ParseCIDR(u.strings[i]).err
             THEN [subnets |-> NilSlice, err |-> TRUE]
             ELSE [subnets |-> Slice([i \in 1..Len(u.strings) |->
                                         ParseCIDR(u.strings[i]).subnet]),
                   err |-> FALSE]

InitSubnets ==
    /\ pc = "parseSubnets"
    /\ op = "none"
    /\ ret = "none"
    /\ annotation \in Annotations
    /\ hostsubnets = [subnets |-> NilSlice, err |-> FALSE]
    /\ CodecUnused
    /\ DBUnused
    /\ MasterUnused
    /\ PodUnused
    /\ ListingUnused
    /\ CallersUnused
    /\ WorkersUnused

\* ParseHybridOverlayHostSubnets(node)
ParseSubnets ==
    /\ pc = "parseSubnets"
    /\ pc' = "done"
    /\ op' = "parseSubnets"
    /\ hostsubnets' = ParseHybridOverlayHostSubnets(annotation)
    /\ ret' = IF hostsubnets'.err THEN "error" ELSE "nil"
    /\ UNCHANGED annotation
    /\ SubnetsFrame

NextSubnets == ParseSubnets

SpecSubnets == InitSubnets /\ [][NextSubnets]_vars

----------------------------------------------------------------------------
(* The hybrid overlay master: node events.                                 *)
(* The API server holds the nodes; the node informer holds a copy of each  *)
(* that lags behind, and hands that copy to AddNode (add and update        *)
(* events, informer.ReceiveAllUpdates) and DeleteNode.  A node handler     *)
(* runs to its end before the next one starts.                             *)

Nodes == {"n1", "n2"}

NoAnnotation == [present |-> FALSE]

\* a node object: whether it is there, whether its labels match
\* config.Kubernetes.NoHostSubnetNodes, and its three annotations
NoNode ==
    [exists |-> FALSE, hybrid |-> FALSE, subnets |-> NoAnnotation,
     hostSubnet |-> "none", drmac |-> FALSE]

\* a node without annotations
NewNode(hybrid) == [NoNode EXCEPT !.exists = TRUE, !.hybrid = hybrid]

\* a node worker that is not in AddNode; inside AddNode, before
\* annotator.Run(), it holds allocatedSubnets and what the annotator was
\* told: whether to set the subnet annotation, and to set ("set"), delete
\* ("delete") or leave ("keep") the distributed router MAC annotation
NoWork ==
    [at |-> "idle", allocatedSubnets |-> NilSlice, setSubnets |-> FALSE,
     drmac |-> "keep"]

\* no logical switch port, switch exclude-IPs not updated
NoPort == [port |-> FALSE, excludeIPs |-> FALSE]

\* houtil.IsHybridOverlayNode(node)
IsHybridOverlayNode(node) == node.hybrid

\* the subnet allocator keeps the set of the subnets marked allocated:
\* MarkAllocatedNetwork adds a subnet to it, ReleaseNetwork takes one out
\* of it, and AllocateNetworks gives a subnet that is not in it and marks
\* it, or an error when none is left
AllocateNetworks(alloc) ==
    IF Subnets \ alloc = {}
    THEN {[err |-> TRUE, subnets |-> <<>>, allocator |-> alloc]}
    ELSE {[err |-> FALSE, subnets |-> <<s>>, allocator |-> alloc \cup {s}] :
             s \in Subnets \ alloc}

\* the value annotator.Set(types.HybridOverlayNodeSubnet, hostsubnets) gives
\* the annotation: the list of the subnets
SubnetsAnnotation(subnets) ==
    [present |-> TRUE,
     value |-> [kind |-> "list",
                items |-> [i \in 1..Len(subnets) |->
                              [kind |-> "string",
                               text |-> [kind |-> "cidr", subnet |-> subnets[i],
                                         hostBits |-> FALSE]]]]]

\* a releaseNodeSubnets that releases nothing
releaseNodeSubnets_Nothing(alloc, subnets) == alloc

\* releaseNodeSubnets: ReleaseNetwork of each subnet
releaseNodeSubnets(alloc, subnets) == alloc \ Elems(subnets)

\* a NewMaster that marks nothing
MarkExisting_Nothing(nodes) == {}

\* NewMaster: mark existing hostsubnets as already allocated; a node whose
\* annotation does not parse is skipped with a warning
MarkExisting(nodes) ==
    UNION {Elems(ParseHybridOverlayHostSubnets(nodes[n].subnets).subnets.elems) :
              n \in {m \in Nodes : nodes[m].exists}}

\* the subnet a node has when the master starts
HomeSubnet(n) == IF n = "n1" THEN "10.1.0.0/24" ELSE "10.1.1.0/24"

\* the nodes that may exist when the master starts: hybrid overlay nodes
\* without subnet annotation, with their subnet, or with an annotation that
\* does not parse, and other nodes with or without host subnet and
\* distributed router MAC
ExistingNodes(n) ==
    {NoNode}
        \cup {[NewNode(TRUE) EXCEPT !.subnets = a] :
                 a \in {NoAnnotation, SubnetsAnnotation(<<HomeSubnet(n)>>),
                        [present |-> TRUE, value |-> BadText]}}
        \cup {[NewNode(FALSE) EXCEPT !.hostSubnet = h, !.drmac = d] :
                 h \in {"none", "valid"}, d \in BOOLEAN}

InitMaster ==
    /\ pc = "master"
    /\ op = "none"
    /\ ret = "none"
    /\ apiNodes \in {f \in [Nodes -> UNION {ExistingNodes(n) : n \in Nodes}] :
                        \A n \in Nodes : f[n] \in ExistingNodes(n)}
    /\ nodeCache = apiNodes
    /\ allocator = MarkExisting(apiNodes)
    /\ ovnPorts \in {f \in [Nodes -> [port : BOOLEAN, excludeIPs : BOOLEAN]] :
                        \A n \in Nodes :
                            /\ f[n].excludeIPs = f[n].port
                            /\ f[n].port => apiNodes[n].exists /\ ~apiNodes[n].hybrid}
    /\ obtained = {}
    /\ failed = FALSE
    /\ CodecUnused
    /\ DBUnused
    /\ SubnetsUnused
    /\ PodUnused
    /\ ListingUnused
    /\ CallersUnused
    /\ workers = [n \in Nodes |-> NoWork]

\* a node is created in the cluster
KubeCreateNode(n) ==
    /\ pc = "master"
    /\ ~apiNodes[n].exists
    /\ ~nodeCache[n].exists
    /\ \E hybrid \in BOOLEAN : apiNodes' = [apiNodes EXCEPT ![n] = NewNode(hybrid)]
    /\ UNCHANGED <<pc, op, ret, allocator, nodeCache, ovnPorts, obtained, failed>>
    /\ MasterFrame

\* a node is deleted from the cluster; the informer of a node it knows gets
\* the changes in their order, so that the delete event carries the last
\* state of the node
KubeDeleteNode(n) ==
    /\ pc = "master"
    /\ apiNodes[n].exists
    /\ apiNodes' = [apiNodes EXCEPT ![n] = NoNode]
    /\ nodeCache' = [nodeCache EXCEPT ![n] =
                         IF nodeCache[n].exists THEN apiNodes[n] ELSE NoNode]
    /\ UNCHANGED <<pc, op, ret, allocator, ovnPorts, obtained, failed>>
    /\ MasterFrame

\* a node that takes part in the overlay network gets its host subnet
\* annotation
KubeSetHostSubnet(n) ==
    /\ pc = "master"
    /\ apiNodes[n].exists
    /\ ~apiNodes[n].hybrid
    /\ apiNodes[n].hostSubnet = "none"
    /\ apiNodes' = [apiNodes EXCEPT ![n].hostSubnet = "valid"]
    /\ UNCHANGED <<pc, op, ret, allocator, nodeCache, ovnPorts, obtained, failed>>
    /\ MasterFrame

\* the node informer catches up with the API server
InformerSync(n) ==
    /\ pc = "master"
    /\ apiNodes[n].exists
    /\ nodeCache[n] # apiNodes[n]
    /\ nodeCache' = [nodeCache EXCEPT ![n] = apiNodes[n]]
    /\ UNCHANGED <<pc, op, ret, allocator, apiNodes, ovnPorts, obtained, failed>>
    /\ MasterFrame

\* the end of AddNode: annotator.Run() patches the node of the API server
\* with the annotations set and deleted; when it fails the allocated
\* subnets, if any, are released
AddNodeRun(n, alloc, allocatedSubnets, patched, runOK) ==
    IF runOK /\ apiNodes[n].exists
    THEN /\ apiNodes' = [apiNodes EXCEPT ![n] = patched]
         /\ allocator' = alloc
         /\ ret' = "nil"
    ELSE /\ allocator' = IF ~allocatedSubnets.nil
                         THEN releaseNodeSubnets(alloc, allocatedSubnets.elems)
                         ELSE alloc
         /\ ret' = "error"
         /\ UNCHANGED apiNodes

\* AddNode on a hybrid overlay node: hybridOverlayNodeEnsureSubnets, then
\* annotator.Run()
AddNodeHybrid(n, node, setOK, runOK) ==
    IF ~ParseHybridOverlayHostSubnets(node.subnets).subnets.nil
    THEN \* do not allocate subnets if they are already allocated
         /\ obtained' = {}
         /\ AddNodeRun(n, allocator, NilSlice, apiNodes[n], runOK)
    ELSE \E got \in AllocateNetworks(allocator) :
             /\ obtained' = Elems(got.subnets)
             /\ IF got.err
                THEN /\ ret' = "error"
                     /\ UNCHANGED <<allocator, apiNodes>>
                ELSE IF ~setOK
                THEN /\ allocator' = got.allocator \ Elems(got.subnets)
                     /\ ret' = "error"
                     /\ UNCHANGED apiNodes
                ELSE AddNodeRun(n, got.allocator, Slice(got.subnets),
                                [apiNodes[n] EXCEPT
                                    !.subnets = SubnetsAnnotation(got.subnets)],
                                runOK)

\* AddNode on another node: handleOverlayPort, then annotator.Run()
AddNodeOverlay(n, node, nbctlOK, excludeOK, setOK, runOK) ==
    /\ obtained' = {}
    /\ IF node.hostSubnet # "valid"
       THEN \* no subnet allocated yet; clean up
            IF node.drmac
            THEN /\ ovnPorts' = IF nbctlOK
                                THEN [ovnPorts EXCEPT ![n].port = FALSE]
                                ELSE ovnPorts
                 /\ AddNodeRun(n, allocator, NilSlice,
                               [apiNodes[n] EXCEPT !.drmac = FALSE], runOK)
            ELSE /\ UNCHANGED ovnPorts
                 /\ AddNodeRun(n, allocator, NilSlice, apiNodes[n], runOK)
       ELSE IF node.drmac
       THEN \* already set up; do nothing
            /\ UNCHANGED ovnPorts
            /\ AddNodeRun(n, allocator, NilSlice, apiNodes[n], runOK)
       ELSE IF ~ovnPorts[n].port /\ ~nbctlOK
       THEN /\ ret' = "error"
            /\ UNCHANGED <<ovnPorts, allocator, apiNodes>>
       ELSE IF ~ovnPorts[n].port /\ ~excludeOK
       THEN /\ ovnPorts' = [ovnPorts EXCEPT ![n].port = TRUE]
            /\ ret' = "error"
            /\ UNCHANGED <<allocator, apiNodes>>
       ELSE /\ ovnPorts' = IF ovnPorts[n].port THEN ovnPorts
                           ELSE [ovnPorts EXCEPT ![n] =
                                    [port |-> TRUE, excludeIPs |-> TRUE]]
            /\ IF ~setOK
               THEN /\ ret' = "error"
                    /\ UNCHANGED <<allocator, apiNodes>>
               ELSE AddNodeRun(n, allocator, NilSlice,
                               [apiNodes[n] EXCEPT !.drmac = TRUE], runOK)

\* AddNode handles node additions
AddNode(n) ==
    /\ pc = "master"
    /\ nodeCache[n].exists
    /\ op' = "AddNode"
    /\ \E nbctlOK, excludeOK, setOK, runOK \in BOOLEAN :
           IF IsHybridOverlayNode(nodeCache[n])
           THEN /\ AddNodeHybrid(n, nodeCache[n], setOK, runOK)
                /\ UNCHANGED ovnPorts
           ELSE AddNodeOverlay(n, nodeCache[n], nbctlOK, excludeOK, setOK, runOK)
    /\ failed' = (failed \/ ret' = "error")
    /\ UNCHANGED <<pc, nodeCache>>
    /\ MasterFrame

\* DeleteNode handles node deletions
DeleteNode(n) ==
    /\ pc = "master"
    /\ nodeCache[n].exists
    /\ ~apiNodes[n].exists
    /\ op' = "DeleteNode"
    /\ ret' = "nil"
    /\ LET subnets == ParseHybridOverlayHostSubnets(nodeCache[n].subnets).subnets
       IN  allocator' = IF ~subnets.nil
                        THEN releaseNodeSubnets(allocator, subnets.elems)
                        ELSE allocator
    /\ IF nodeCache[n].drmac /\ ~IsHybridOverlayNode(nodeCache[n])
       THEN \E nbctlOK \in BOOLEAN :
                ovnPorts' = IF nbctlOK THEN [ovnPorts EXCEPT ![n].port = FALSE]
                            ELSE ovnPorts
       ELSE UNCHANGED ovnPorts
    /\ nodeCache' = [nodeCache EXCEPT ![n] = NoNode]
    /\ UNCHANGED <<pc, apiNodes, obtained, failed>>
    /\ MasterFrame

NextMaster ==
    \E n \in Nodes :
        \/ KubeCreateNode(n)
        \/ KubeDeleteNode(n)
        \/ KubeSetHostSubnet(n)
        \/ InformerSync(n)
        \/ AddNode(n)
        \/ DeleteNode(n)

SpecMaster == InitMaster /\ [][NextMaster]_vars

----------------------------------------------------------------------------
(* The hybrid overlay master: pod events.                                  *)
(* A run is one AddPod(pod): the annotations of the pod and of its         *)
(* namespace are drawn in the initial state; each lookup of                *)
(* waitForNamespace is a step, and the rest of AddPod is one step.         *)

\* wait.Backoff{Steps: 7}: the lookups waitForNamespace makes at most
Steps == 7

AnnotationTexts == {"", "10.0.0.1", "10.0.0.2"}

\* an annotation of a namespace or a pod: absent, or present with a value
ObjectAnnotations ==
    {NoAnnotation} \cup {[present |-> TRUE, value |-> v] : v \in AnnotationTexts}

\* the annotations types.HybridOverlayExternalGw and types.HybridOverlayVTEP
HybridAnnotations == [externalGw : ObjectAnnotations, vtep : ObjectAnnotations]

\* annotations[key]: the value, "" when the key is absent
Lookup(a) == IF a.present THEN a.value ELSE ""

\* CopyNamespaceAnnotationsToPod: the annotations of the pod once
\* annotator.Run() has succeeded; only what exists on the namespace is set
CopyNamespaceAnnotationsToPod(ns, p) ==
    [externalGw |-> IF ns.externalGw.present THEN ns.externalGw ELSE p.externalGw,
     vtep |-> IF ns.vtep.present THEN ns.vtep ELSE p.vtep]

InitPod ==
    /\ pc = "waitForNamespace"
    /\ op = "none"
    /\ ret = "none"
    /\ namespace \in HybridAnnotations
    /\ pod \in HybridAnnotations
    /\ lookups = 0
    /\ lookupResult = "none"
    /\ CodecUnused
    /\ DBUnused
    /\ SubnetsUnused
    /\ MasterUnused
    /\ ListingUnused
    /\ CallersUnused
    /\ WorkersUnused

\* a waitForNamespace that retries on every failed lookup
NamespaceLookup_RetryOnError ==
    /\ pc = "waitForNamespace"
    /\ lookups < Steps
    /\ lookups' = lookups + 1
    /\ \E outcome \in {"found", "notFound", "error"} :
           /\ lookupResult' = outcome
           /\ IF outcome = "found"
              THEN pc' = "AddPod" /\ UNCHANGED <<op, ret>>
              ELSE IF lookups' < Steps
              THEN UNCHANGED <<pc, op, ret>>
              ELSE pc' = "done" /\ op' = "AddPod" /\ ret' = "error"
    /\ UNCHANGED <<namespace, pod>>
    /\ PodFrame

\* one try of waitForNamespace: namespaceLister.Get(name) finds the
\* namespace, reports NotFound, or fails otherwise
NamespaceLookup ==
    /\ pc = "waitForNamespace"
    /\ lookups < Steps
    /\ lookups' = lookups + 1
    /\ \E outcome \in {"found", "notFound", "error"} :
           /\ lookupResult' = outcome
           /\ IF outcome = "found"
              THEN pc' = "AddPod" /\ UNCHANGED <<op, ret>>
              ELSE IF outcome = "notFound" /\ lookups' < Steps
              THEN \* namespace not found; retry
                   UNCHANGED <<pc, op, ret>>
              ELSE pc' = "done" /\ op' = "AddPod" /\ ret' = "error"
    /\ UNCHANGED <<namespace, pod>>
    /\ PodFrame

\* AddPod once waitForNamespace has returned the namespace
AddPodCopy ==
    /\ pc = "AddPod"
    /\ pc' = "done"
    /\ op' = "AddPod"
    /\ IF Lookup(namespace.externalGw) # Lookup(pod.externalGw)
          \/ Lookup(namespace.vtep) # Lookup(pod.vtep)
       THEN \* copy namespace annotations to the pod and return
            \E setOK, runOK \in BOOLEAN :
                IF (namespace.externalGw.present \/ namespace.vtep.present) /\ ~setOK
                THEN ret' = "error" /\ UNCHANGED pod
                ELSE IF ~runOK
                THEN ret' = "error" /\ UNCHANGED pod
                ELSE /\ ret' = "nil"
                     /\ pod' = CopyNamespaceAnnotationsToPod(namespace, pod)
       ELSE ret' = "nil" /\ UNCHANGED pod
    /\ UNCHANGED <<namespace, lookups, lookupResult>>
    /\ PodFrame

NextPod == NamespaceLookup \/ AddPodCopy

SpecPod == InitPod /\ [][NextPod]_vars

----------------------------------------------------------------------------
(* forEachAddressSet on the output of its find command.                    *)
(* The table may hold address sets that other writers made, so the output  *)
(* is any list of fields: a run draws it in the initial state.             *)

\* the largest number of fields of the output
MaxFields == 3

\* fields of the output: external ids named name whose value parses as a
\* bare, a compact or a tagged name or does not parse, the empty value,
\* another external id, and a field shorter than the prefix
OutputFields ==
    {NamePrefix \o <<"a">>,
     NamePrefix \o Join(<< <<"a">>, <<"b">>, <<"a">> >>),
     NamePrefix \o Join(<<EmptyString, NetworkPolicyType, TagV6, <<"a">>, <<"b">>, <<"a">> >>),
     NamePrefix \o Join(<<EmptyString, NamespaceType, TagV6, <<"a">>, EmptyString>>),
     NamePrefix,
     <<"o", "w", "n", "e", "r", "=", "a">>,
     <<"n", "a", "m">>}

InitListing ==
    /\ pc = "listing"
    /\ op = "none"
    /\ ret = "none"
    /\ output \in SeqsUpTo(OutputFields, MaxFields)
    /\ CodecUnused
    /\ DBUnused
    /\ SubnetsUnused
    /\ MasterUnused
    /\ PodUnused
    /\ CallersUnused
    /\ WorkersUnused

\* forEachAddressSet(iteratorFn) when the find command fails, or gives the
\* output
ForEachOutput ==
    /\ pc = "listing"
    /\ pc' = "done"
    /\ op' = "forEach"
    /\ \E up \in BOOLEAN :
          IF up
          THEN visited' = IterateAddressSets(output) /\ ret' = "nil"
          ELSE visited' = <<>> /\ ret' = "error"
    /\ UNCHANGED <<db, call, output>>
    /\ ListingFrame

NextListing == ForEachOutput

SpecListing == InitListing /\ [][NextListing]_vars

----------------------------------------------------------------------------
(* Concurrent callers of createAddressSet and deleteAddressSet.            *)
(* The functions take no lock and every ovn-nbctl command is a transaction *)
(* of its own, so the commands of two callers interleave: a step is one    *)
(* command.  Each caller makes one call, drawn in the initial state, on a  *)
(* table that is empty or holds one address set.                           *)

Callers == {"c1", "c2"}

\* the references the concurrent callers use
CallerRefs ==
    {Encode([ownerType |-> NamespaceType, ipv6 |-> FALSE, ownerNamespace |-> <<"a">>,
             ownerName |-> EmptyString, args |-> NilSlice]),
     Encode([ownerType |-> NetworkPolicyType, ipv6 |-> FALSE, ownerNamespace |-> <<"a">>,
             ownerName |-> <<"b">>, args |-> Slice(<< <<"a">> >>)])}

\* a call that has not started: createAddressSet(ref, addresses) or
\* deleteAddressSet(ref)
Calls ==
    {[op |-> "create", ref |-> r, addresses |-> a, at |-> "start",
      found |-> FALSE, ret |-> "none", unreachable |-> FALSE] :
        r \in CallerRefs, a \in AddressLists}
    \cup {[op |-> "delete", ref |-> r, addresses |-> <<>>, at |-> "start",
           found |-> FALSE, ret |-> "none", unreachable |-> FALSE] :
             r \in CallerRefs}

InitCallers ==
    /\ pc = "callers"
    /\ op = "none"
    /\ ret = "none"
    /\ callers \in [Callers -> Calls]
    /\ returns = <<>>
    /\ db \in {<<>>} \cup {NbctlCreate(<<>>, r.HashedName, r.DisplayName, a) :
                              r \in CallerRefs, a \in AddressLists}
    /\ call = NoCall
    /\ visited = <<>>
    /\ CodecUnused
    /\ SubnetsUnused
    /\ MasterUnused
    /\ PodUnused
    /\ ListingUnused
    /\ WorkersUnused

\* the call of caller c returns
Return(c, result, reachable) ==
    /\ callers' = [callers EXCEPT ![c].at = "done", ![c].ret = result,
                                  ![c].unreachable = ~reachable]
    /\ returns' = Append(returns, c)

\* the find command of createAddressSet
CallerFind(c) ==
    /\ pc = "callers"
    /\ callers[c].op = "create"
    /\ callers[c].at = "start"
    /\ \E up \in BOOLEAN :
          IF up
          THEN /\ callers' = [callers EXCEPT
                                 ![c].at = "write",
                                 ![c].found = HasRow(db, callers[c].ref.HashedName)]
               /\ UNCHANGED returns
          ELSE Return(c, "error", FALSE)
    /\ UNCHANGED <<pc, op, ret, dbVars>>
    /\ CallersFrame

\* the second command of createAddressSet: clear, set or create
CallerWrite(c) ==
    /\ pc = "callers"
    /\ callers[c].at = "write"
    /\ \E up \in BOOLEAN :
          LET name == callers[c].ref.HashedName
              rowThere == HasRow(db, name)
          IN  IF ~up
              THEN db' = db /\ Return(c, "error", FALSE)
              ELSE IF callers[c].found
              THEN \* clear (no addresses) or set: fails without the row
                   IF rowThere
                   THEN /\ db' = NbctlSetAddresses(db, name, callers[c].addresses)
                        /\ Return(c, "nil", TRUE)
                   ELSE db' = db /\ Return(c, "error", TRUE)
              ELSE \* create: fails when the name is taken (name is an index)
                   IF ~rowThere
                   THEN /\ db' = NbctlCreate(db, name, callers[c].ref.DisplayName,
                                             callers[c].addresses)
                        /\ Return(c, "nil", TRUE)
                   ELSE db' = db /\ Return(c, "error", TRUE)
    /\ UNCHANGED <<pc, op, ret, call, visited>>
    /\ CallersFrame

\* deleteAddressSet
CallerDelete(c) ==
    /\ pc = "callers"
    /\ callers[c].op = "delete"
    /\ callers[c].at = "start"
    /\ \E up \in BOOLEAN :
          IF up
          THEN /\ db' = NbctlDestroy(db, callers[c].ref.HashedName)
               /\ Return(c, "nil", TRUE)
          ELSE db' = db /\ Return(c, "error", FALSE)
    /\ UNCHANGED <<pc, op, ret, call, visited>>
    /\ CallersFrame

NextCallers ==
    \E c \in Callers :
        \/ CallerFind(c)
        \/ CallerWrite(c)
        \/ CallerDelete(c)

SpecCallers == InitCallers /\ [][NextCallers]_vars

----------------------------------------------------------------------------
(* The hybrid overlay master: node workers.                                *)
(* nodeEventHandler.Run starts several workers; the work queue gives a     *)
(* node to one worker at a time, so the handlers of different nodes        *)
(* interleave and those of one node do not.  AddNode is two steps here:    *)
(* up to annotator.Run(), and annotator.Run() with what follows it.  The   *)
(* allocator serialises its calls.                                         *)

\* AddNode returns before annotator.Run()
WorkerReturns(n, result) ==
    /\ ret' = result
    /\ failed' = (failed \/ result = "error")
    /\ workers' = [workers EXCEPT ![n] = NoWork]

\* AddNode goes on to annotator.Run()
WorkerGoesOn(n, allocatedSubnets, setSubnets, drmac) ==
    /\ workers' = [workers EXCEPT ![n] =
                      [at |-> "run", allocatedSubnets |-> allocatedSubnets,
                       setSubnets |-> setSubnets, drmac |-> drmac]]
    /\ UNCHANGED <<ret, failed>>

\* AddNode up to annotator.Run(): hybridOverlayNodeEnsureSubnets or
\* handleOverlayPort on the node object of the event
WorkerEnsure(n) ==
    /\ pc = "master"
    /\ workers[n].at = "idle"
    /\ nodeCache[n].exists
    /\ op' = "AddNode"
    /\ LET node == nodeCache[n]
       IN  \E nbctlOK, excludeOK, setOK \in BOOLEAN :
           IF IsHybridOverlayNode(node)
           THEN /\ UNCHANGED ovnPorts
                /\ IF ~ParseHybridOverlayHostSubnets(node.subnets).subnets.nil
                   THEN /\ obtained' = {}
                        /\ UNCHANGED allocator
                        /\ WorkerGoesOn(n, NilSlice, FALSE, "keep")
                   ELSE \E got \in AllocateNetworks(allocator) :
                            /\ obtained' = Elems(got.subnets)
                            /\ IF got.err
                               THEN UNCHANGED allocator /\ WorkerReturns(n, "error")
                               ELSE IF ~setOK
                               THEN /\ allocator' = got.allocator \ Elems(got.subnets)
                                    /\ WorkerReturns(n, "error")
                               ELSE /\ allocator' = got.allocator
                                    /\ WorkerGoesOn(n, Slice(got.subnets), TRUE, "keep")
           ELSE /\ obtained' = {}
                /\ UNCHANGED allocator
                /\ IF node.hostSubnet # "valid"
                   THEN IF node.drmac
                        THEN /\ ovnPorts' = IF nbctlOK
                                            THEN [ovnPorts EXCEPT ![n].port = FALSE]
                                            ELSE ovnPorts
                             /\ WorkerGoesOn(n, NilSlice, FALSE, "delete")
                        ELSE /\ UNCHANGED ovnPorts
                             /\ WorkerGoesOn(n, NilSlice, FALSE, "keep")
                   ELSE IF node.drmac
                   THEN /\ UNCHANGED ovnPorts
                        /\ WorkerGoesOn(n, NilSlice, FALSE, "keep")
                   ELSE IF ~ovnPorts[n].port /\ ~nbctlOK
                   THEN UNCHANGED ovnPorts /\ WorkerReturns(n, "error")
                   ELSE IF ~ovnPorts[n].port /\ ~excludeOK
                   THEN /\ ovnPorts' = [ovnPorts EXCEPT ![n].port = TRUE]
                        /\ WorkerReturns(n, "error")
                   ELSE /\ ovnPorts' = IF ovnPorts[n].port THEN ovnPorts
                                       ELSE [ovnPorts EXCEPT ![n] =
                                                [port |-> TRUE, excludeIPs |-> TRUE]]
                        /\ IF ~setOK THEN WorkerReturns(n, "error")
                           ELSE WorkerGoesOn(n, NilSlice, FALSE, "set")
    /\ UNCHANGED <<pc, apiNodes, nodeCache>>
    /\ WorkersFrame

\* the rest of AddNode: annotator.Run() patches the node of the API server;
\* when it fails the allocated subnets, if any, are released
WorkerRun(n) ==
    /\ pc = "master"
    /\ workers[n].at = "run"
    /\ \E runOK \in BOOLEAN :
          IF runOK /\ apiNodes[n].exists
          THEN /\ apiNodes' = [apiNodes EXCEPT
                                  ![n].subnets =
                                      IF workers[n].setSubnets
                                      THEN SubnetsAnnotation(workers[n].allocatedSubnets.elems)
                                      ELSE @,
                                  ![n].drmac =
                                      IF workers[n].drmac = "keep" THEN @
                                      ELSE workers[n].drmac = "set"]
               /\ UNCHANGED allocator
               /\ WorkerReturns(n, "nil")
          ELSE /\ allocator' = IF ~workers[n].allocatedSubnets.nil
                               THEN releaseNodeSubnets(allocator,
                                                       workers[n].allocatedSubnets.elems)
                               ELSE allocator
               /\ UNCHANGED apiNodes
               /\ WorkerReturns(n, "error")
    /\ UNCHANGED <<pc, op, nodeCache, ovnPorts, obtained>>
    /\ WorkersFrame

\* DeleteNode, once no AddNode of the node is running
WorkerDelete(n) ==
    /\ workers[n].at = "idle"
    /\ DeleteNode(n)

NextWorkers ==
    \E n \in Nodes :
        \/ KubeCreateNode(n)
        \/ KubeDeleteNode(n)
        \/ KubeSetHostSubnet(n)
        \/ InformerSync(n)
        \/ WorkerEnsure(n)
        \/ WorkerRun(n)
        \/ WorkerDelete(n)

SpecWorkers == InitMaster /\ [][NextWorkers]_vars

----------------------------------------------------------------------------
(* Vocabulary of the properties *)

DotFree(s) == \A i \in 1..Len(s) : s[i] # Dot

\* a tuple with dot-free components and a non-empty ownerNamespace
ValidTuple(t) ==
    /\ DotFree(t.ownerType)
    /\ DotFree(t.ownerNamespace)
    /\ DotFree(t.ownerName)
    /\ \A i \in 1..Len(t.args.elems) : DotFree(t.args.elems[i])
    /\ t.ownerNamespace # EmptyString

BareCase(t) ==
    t.ownerType = NamespaceType /\ ~t.ipv6 /\ t.ownerName = EmptyString /\ t.args.nil

CompactCase(t) == ~BareCase(t) /\ t.ownerType = NetworkPolicyType /\ ~t.ipv6

GeneralCase(t) == ~BareCase(t) /\ ~CompactCase(t)

\* the boundary case: general tagged form, empty ownerName, no args
BoundaryCase(t) ==
    GeneralCase(t) /\ t.ownerName = EmptyString /\ Len(t.args.elems) = 0

\* r is a reference whose components are those of t (Args as sequences)
SameComponents(r, t) ==
    /\ ~r.nil
    /\ r.OwnerType = t.ownerType
    /\ r.IPv6 = t.ipv6
    /\ r.OwnerNamespace = t.ownerNamespace
    /\ r.OwnerName = t.ownerName
    /\ r.Args.elems = t.args.elems

\* ".x.y.z" for <<x, y, z>>
RECURSIVE DotPrefixed(_)
DotPrefixed(strs) ==
    IF strs = <<>> THEN EmptyString
    ELSE <<Dot>> \o Head(strs) \o DotPrefixed(Tail(strs))

\* the number of '.' in s
CountDots(s) == Cardinality({i \in 1..Len(s) : s[i] = Dot})

Parsing == op \in {"parse", "parseRef"}

----------------------------------------------------------------------------
(* Round trip *)

\* C1: for every tuple with dot-free components and a non-empty
\* ownerNamespace, other than a general-tagged-form tuple with an empty
\* ownerName and no args, parsing the display name built from the tuple
\* returns a non-nil reference with the tuple's OwnerType, IPv6,
\* OwnerNamespace, OwnerName and Args.
RoundTripExceptBoundary ==
    (op = "parseRef" /\ ValidTuple(tuple) /\ ~BoundaryCase(tuple))
        => SameComponents(parsed, tuple)

\* C2: for every tuple with dot-free components and a non-empty
\* ownerNamespace, whichever of the three formats its display name takes,
\* parsing the display name recovers exactly the components encoded.
RoundTripAllFormats ==
    (op = "parseRef" /\ ValidTuple(tuple)) => SameComponents(parsed, tuple)

----------------------------------------------------------------------------
(* Encoding rules *)

NetworkPolicyCompactRule ==
    (op = "new" /\ tuple.ownerType = NetworkPolicyType /\ ~tuple.ipv6) =>
        /\ ref.DisplayName =
               tuple.ownerNamespace \o <<Dot>> \o tuple.ownerName
                   \o DotPrefixed(tuple.args.elems)
        /\ (tuple.ownerNamespace # EmptyString /\ Head(tuple.ownerNamespace) # Dot)
               => Head(ref.DisplayName) # Dot

\* an IPv4 NetworkPolicy reference with two args was given the compact name
NetworkPolicyCompactBuilt ==
    /\ op = "new"
    /\ tuple.ownerType = NetworkPolicyType
    /\ ~tuple.ipv6
    /\ tuple.ownerNamespace = <<"a">>
    /\ tuple.ownerName = <<"b">>
    /\ tuple.args.elems = << <<"a">>, <<"b">> >>
    /\ ref.DisplayName = <<"a", Dot, "b", Dot, "a", Dot, "b">>

\* C5: in every case covered neither by the bare-namespace rule nor by the
\* NetworkPolicy compact rule, newAddressSetRef sets DisplayName to
\* "." ownerType "." ("v6" if ipv6, else "v4") "." ownerNamespace "."
\* ownerName, followed by "." arg for each arg in order.
GeneralTaggedRule ==
    (op = "new" /\ GeneralCase(tuple)) =>
        ref.DisplayName =
            <<Dot>> \o tuple.ownerType
                \o <<Dot>> \o (IF tuple.ipv6 THEN TagV6 ELSE TagV4)
                \o <<Dot>> \o tuple.ownerNamespace
                \o <<Dot>> \o tuple.ownerName
                \o DotPrefixed(tuple.args.elems)

\* an IPv6 NetworkPolicy reference with an arg was given the tagged name
GeneralTaggedBuilt ==
    /\ op = "new"
    /\ tuple.ownerType = NetworkPolicyType
    /\ tuple.ipv6
    /\ tuple.ownerNamespace = <<"a">>
    /\ tuple.ownerName = <<"b">>
    /\ tuple.args.elems = << <<"a">> >>
    /\ ref.DisplayName =
           <<Dot>> \o NetworkPolicyType \o <<Dot, "v", "6", Dot, "a", Dot, "b", Dot, "a">>

----------------------------------------------------------------------------
(* Decoding *)

\* C6: parseAddressSetRef splits displayName on '.' and, first match
\* winning, (a) with more than 5 parts and an empty first part returns
\* OwnerType=parts[1], IPv6=(parts[2]="v6"), OwnerNamespace=parts[3],
\* OwnerName=parts[4], Args=parts[5:]; (b) with more than 1 part and a
\* non-empty first part returns OwnerType="NetworkPolicy", IPv6=false,
\* OwnerNamespace=parts[0], OwnerName=parts[1], Args=parts[2:]; (c) with
\* exactly one non-empty part returns OwnerType="Namespace", IPv6=false,
\* OwnerNamespace=parts[0], empty OwnerName and no Args.
\* (parts are numbered from 0 in the statement and from 1 in the formula.)
DecoderClassification ==
    Parsing =>
        LET parts == Split(displayName)
            n == Len(parts)
        IN  /\ (n > 5 /\ parts[1] = EmptyString) =>
                   /\ ~parsed.nil
                   /\ parsed.OwnerType = parts[2]
                   /\ parsed.IPv6 = (parts[3] = TagV6)
                   /\ parsed.OwnerNamespace = parts[4]
                   /\ parsed.OwnerName = parts[5]
                   /\ parsed.Args.elems = [i \in 1..(n - 5) |-> parts[i + 5]]
            /\ (n > 1 /\ parts[1] # EmptyString) =>
                   /\ ~parsed.nil
                   /\ parsed.OwnerType = NetworkPolicyType
                   /\ parsed.IPv6 = FALSE
                   /\ parsed.OwnerNamespace = parts[1]
                   /\ parsed.OwnerName = parts[2]
                   /\ parsed.Args.elems = [i \in 1..(n - 2) |-> parts[i + 2]]
            /\ (n = 1 /\ parts[1] # EmptyString) =>
                   /\ ~parsed.nil
                   /\ parsed.OwnerType = NamespaceType
                   /\ parsed.IPv6 = FALSE
                   /\ parsed.OwnerNamespace = parts[1]
                   /\ parsed.OwnerName = EmptyString
                   /\ parsed.Args.elems = <<>>

\* the name ".a.v6.a.a.a" was parsed as a tagged IPv6 reference with one arg
TaggedNameParsed ==
    /\ op = "parse"
    /\ displayName = <<Dot, "a", Dot, "v", "6", Dot, "a", Dot, "a", Dot, "a">>
    /\ ~parsed.nil
    /\ parsed.IPv6
    /\ parsed.Args.elems = << <<"a">> >>

\* C7: every non-nil AddressSetRef returned by newAddressSetRef or by
\* parseAddressSetRef has HashedName = hashForOVN(DisplayName), so the
\* reference built from a tuple and the one parsed from its display name
\* carry the same HashedName although their other fields may differ.
HashedNameOfDisplayName ==
    /\ op \in {"new", "parseRef"} => ref.HashedName = hashForOVN(ref.DisplayName)
    /\ (Parsing /\ ~parsed.nil) =>
           /\ parsed.DisplayName = displayName
           /\ parsed.HashedName = hashForOVN(displayName)
    /\ (op = "parseRef" /\ ~parsed.nil) => parsed.HashedName = ref.HashedName

\* a reference with a '.' in its name was parsed back into a reference with
\* other components and the same hashed name
SameHashOtherComponents ==
    /\ op = "parseRef"
    /\ ~parsed.nil
    /\ parsed.OwnerName # ref.OwnerName
    /\ parsed.DisplayName = ref.DisplayName
    /\ parsed.HashedName = ref.HashedName

----------------------------------------------------------------------------
(* Identity *)

\* the two tuples differ in some component (args compared as sequences)
TuplesDiffer ==
    \/ tuple.ownerType # other.ownerType
    \/ tuple.ipv6 # other.ipv6
    \/ tuple.ownerNamespace # other.ownerNamespace
    \/ tuple.ownerName # other.ownerName
    \/ tuple.args.elems # other.args.elems

\* C8: two tuples with dot-free components and non-empty ownerNamespace
\* that differ in ownerType, ipv6, ownerNamespace, ownerName or args (as
\* sequences) get different DisplayNames from newAddressSetRef and, the
\* digest being collision free, different HashedNames.
DistinctIdentities ==
    (op = "pair" /\ ValidTuple(tuple) /\ ValidTuple(other) /\ TuplesDiffer) =>
        /\ ref.DisplayName # otherRef.DisplayName
        /\ ref.HashedName # otherRef.HashedName

\* a bare Namespace reference and the same reference with one arg were built
ArgsChangeIdentity ==
    /\ op = "pair"
    /\ tuple.ownerType = NamespaceType /\ other.ownerType = NamespaceType
    /\ ~tuple.ipv6 /\ ~other.ipv6
    /\ tuple.ownerNamespace = <<"a">> /\ other.ownerNamespace = <<"a">>
    /\ tuple.ownerName = EmptyString /\ other.ownerName = EmptyString
    /\ tuple.args.nil
    /\ other.args.elems = << <<"a">> >>
    /\ ref.DisplayName = <<"a">>
    /\ otherRef.DisplayName # <<"a">>

----------------------------------------------------------------------------
(* Unparseable names *)

----------------------------------------------------------------------------
(* The result of a failed parse *)

\* C11 as stated: for every input string, also one classified as
\* unparseable, the result of parseAddressSetRef gives the caller
\* HashedName = hashForOVN(displayName).
HashedNameSurvivesFailedParse ==
    Parsing => (~parsed.nil /\ parsed.HashedName = hashForOVN(displayName))

\* C11 as amended: a non-nil result of parseAddressSetRef carries
\* DisplayName = displayName and HashedName = hashForOVN(displayName); for
\* an unparseable input the result is the nil pointer, which carries no
\* HashedName (nor any other field), so the caller has to hash the string
\* itself.
HashedNameOnlyWhenParsed ==
    Parsing =>
        IF parsed.nil
        THEN DOMAIN parsed = {"nil"}
        ELSE parsed.DisplayName = displayName
                 /\ parsed.HashedName = hashForOVN(displayName)

\* the name "." was found unparseable and the result carries no hashed name
NoHashedNameForUnparseable ==
    /\ op = "parse"
    /\ displayName = <<Dot>>
    /\ parsed.nil
    /\ "HashedName" \notin DOMAIN parsed

\* C12: parseAddressSetRef never faults: for every input string it returns
\* a ref or nil, every nameParts[i] it reads and every nameParts[i:] it
\* takes lies within the split sequence, nameParts[1]..nameParts[4] are
\* read only when there are at least 6 parts and nameParts[1] only when
\* there are at least 2.
ParseNeverFaults ==
    Parsing =>
        LET acc == parseAddressSetRefAccesses(displayName)
            n == Len(Split(displayName))
        IN  /\ parsed.nil \in BOOLEAN
            /\ \A i \in acc.index : i < n
            /\ \A l \in acc.sliceFrom : l <= n
            /\ ({2, 3, 4} \cap acc.index # {}) => n >= 6
            /\ (1 \in acc.index) => n >= 2

\* a name of exactly 6 parts was parsed as tagged, reading nameParts[4] and
\* taking nameParts[5:]
SixPartsRead ==
    /\ op = "parse"
    /\ displayName = <<Dot, "a", Dot, "a", Dot, "a", Dot, "a", Dot, "a">>
    /\ 4 \in parseAddressSetRefAccesses(displayName).index
    /\ ~parsed.nil
    /\ parsed.Args.elems = << <<"a">> >>

----------------------------------------------------------------------------
(* Display name and components *)

\* the reference that newAddressSetRef builds from the components of r
Reencode(r) ==
    newAddressSetRef(r.OwnerType, r.IPv6, r.OwnerNamespace, r.OwnerName, r.Args)

\* C13: for every ref returned by newAddressSetRef and every non-nil ref
\* returned by parseAddressSetRef, DisplayName is the display name that the
\* encoding rule produces from the ref's OwnerType, IPv6, OwnerNamespace,
\* OwnerName and Args.
DisplayNameFromComponents ==
    /\ op \in {"new", "parseRef"} => Reencode(ref).DisplayName = ref.DisplayName
    /\ (Parsing /\ ~parsed.nil) => Reencode(parsed).DisplayName = parsed.DisplayName

\* the parser took the tagged form: its Args are nameParts[5:]
DecodedAsTagged ==
    /\ ~parsed.nil
    /\ ~parsed.Args.nil
    /\ Len(parsed.Args.elems) = Len(Split(displayName)) - 5

\* C14: for tuples with a non-empty, dot-free ownerNamespace, the
\* DisplayName of newAddressSetRef begins with '.' if and only if the
\* general tagged rule was applied; parseAddressSetRef decodes a name
\* produced by the tagged rule as a tagged reference or not at all, and
\* decodes a name produced by the compact or bare rule as a compact or bare
\* reference, never as a tagged one.
LeadingDotSeparatesForms ==
    (/\ op \in {"new", "parseRef"}
     /\ tuple.ownerNamespace # EmptyString
     /\ DotFree(tuple.ownerNamespace)) =>
        /\ (Head(ref.DisplayName) = Dot) <=> GeneralCase(tuple)
        /\ op = "parseRef" =>
               IF GeneralCase(tuple)
               THEN parsed.nil \/ DecodedAsTagged
               ELSE ~parsed.nil /\ ~DecodedAsTagged

\* an IPv4 reference of another owner type was built with a leading '.' and
\* decoded as a tagged reference
TaggedNameDecodedAsTagged ==
    /\ op = "parseRef"
    /\ tuple.ownerType = <<"P">>
    /\ ~tuple.ipv6
    /\ tuple.ownerNamespace = <<"a">>
    /\ tuple.ownerName = <<"b">>
    /\ tuple.args.elems = << <<"a">> >>
    /\ Head(ref.DisplayName) = Dot
    /\ DecodedAsTagged
    /\ parsed.OwnerType = <<"P">>

\* some component of the tuple that goes into the display name has a '.'
HasDottedComponent(t) ==
    \/ ~DotFree(t.ownerNamespace)
    \/ ~DotFree(t.ownerName)
    \/ (GeneralCase(t) /\ ~DotFree(t.ownerType))
    \/ \E i \in 1..Len(t.args.elems) : ~DotFree(t.args.elems[i])

\* C15: for every tuple in which ownerNamespace, ownerName, ownerType (when
\* encoded) or some arg contains a '.', parsing the display name built from
\* the tuple does not return a ref with the tuple's components.
DotsAreNotEscaped ==
    (op = "parseRef" /\ HasDottedComponent(tuple)) => ~SameComponents(parsed, tuple)

\* the NetworkPolicy named "a.b" was decoded with OwnerName "a" and a
\* leading arg "b"
DottedPolicyNameSplit ==
    /\ op = "parseRef"
    /\ tuple.ownerType = NetworkPolicyType
    /\ ~tuple.ipv6
    /\ tuple.ownerNamespace = <<"a">>
    /\ tuple.ownerName = <<"a", Dot, "b">>
    /\ tuple.args.elems = << <<"a">> >>
    /\ ~parsed.nil
    /\ parsed.OwnerName = <<"a">>
    /\ parsed.Args.elems = << <<"b">>, <<"a">> >>

----------------------------------------------------------------------------
(* Enumeration of the address sets *)

\* C16: after any sequence of createAddressSet and deleteAddressSet calls
\* made with refs built by newAddressSetRef, a successful forEachAddressSet
\* invokes iteratorFn exactly once for each address set in the database,
\* with a ref whose DisplayName and HashedName are those the set was
\* created with; no address set is left out.
EnumerationComplete ==
    (op = "forEach" /\ ret = "nil") =>
        /\ Len(visited) = Len(db)
        /\ \A i \in 1..Len(db) :
               /\ visited[i].HashedName = db[i].name
               /\ visited[i].DisplayName = db[i].externalIds[1].value

----------------------------------------------------------------------------
(* The hybrid overlay subnet annotation *)

\* the annotation is a single valid CIDR
IsSingleCIDR(ann) == ann.present /\ ann.value.kind = "cidr"

\* the annotation is a JSON list whose every element is a valid CIDR string
IsCIDRList(ann) ==
    /\ ann.present
    /\ ann.value.kind = "list"
    /\ \A i \in 1..Len(ann.value.items) :
           /\ ann.value.items[i].kind = "string"
           /\ ann.value.items[i].text.kind = "cidr"

\* C19: ParseHybridOverlayHostSubnets has exactly three outcomes: with no
\* annotation (nil, nil); with a single valid CIDR or a JSON list whose
\* every element is a valid CIDR, those subnets in order and no error;
\* with any other annotation value nil subnets and an error.
SubnetAnnotationOutcomes ==
    op = "parseSubnets" =>
        IF ~annotation.present
        THEN hostsubnets.subnets.nil /\ ~hostsubnets.err
        ELSE IF IsSingleCIDR(annotation)
        THEN /\ ~hostsubnets.err
             /\ hostsubnets.subnets.elems = <<annotation.value.subnet>>
        ELSE IF IsCIDRList(annotation)
        THEN /\ ~hostsubnets.err
             /\ hostsubnets.subnets.elems =
                    [i \in 1..Len(annotation.value.items) |->
                        annotation.value.items[i].text.subnet]
        ELSE hostsubnets.subnets.nil /\ hostsubnets.err

----------------------------------------------------------------------------
(* The hybrid overlay master *)

\* C17: whenever AddNode returns an error, every subnet the call obtained
\* from AllocateNetworks has been released and the allocator holds the same
\* subnets as before the call.
ErrorLeavesNothingAllocated ==
    [][(op' = "AddNode" /\ ret' = "error") =>
           /\ obtained' \cap allocator' = {}
           /\ allocator' = allocator]_vars

\* AddNode on a hybrid overlay node got a subnet and returned an error
AddNodeFailedAfterAllocation ==
    op = "AddNode" /\ ret = "error" /\ obtained # {}

\* the nodes that still exist: those of the API server and those whose
\* deletion the master has not handled yet
ExistingNode(n) ==
    IF apiNodes[n].exists THEN apiNodes[n] ELSE nodeCache[n]

AnnotatedSubnets ==
    UNION {Elems(ParseHybridOverlayHostSubnets(ExistingNode(n).subnets).subnets.elems) :
              n \in {m \in Nodes : ExistingNode(m).exists}}

\* C20: as long as no AddNode or DeleteNode has returned an error, every
\* subnet marked allocated is in the subnet annotation of a node that still
\* exists; with no node left nothing is allocated.
NoSubnetLeak ==
    ~failed => allocator \subseteq AnnotatedSubnets

\* C18: whenever AddPod returns nil, the pod's external gateway and VTEP
\* annotations equal those of the namespace, an absent annotation counting
\* as empty.
PodInLineWithNamespace ==
    (op = "AddPod" /\ ret = "nil") =>
        /\ Lookup(pod.externalGw) = Lookup(namespace.externalGw)
        /\ Lookup(pod.vtep) = Lookup(namespace.vtep)

----------------------------------------------------------------------------
(* The address_set table *)

\* the rows of the table with the given name
RowsNamed(d, name) == SelectSeq(d, LAMBDA row : row.name = name)

\* the rows of the table with another name
RowsNotNamed(d, name) == SelectSeq(d, LAMBDA row : row.name # name)

\* the table holds exactly one row with the name, with these addresses
HoldsAddressSet(d, name, addresses) ==
    /\ Len(RowsNamed(d, name)) = 1
    /\ RowsNamed(d, name)[1].addresses = Elems(addresses)

\* C22: when every command of createAddressSet(ref, addresses) succeeds,
\* the table then holds exactly one row named ref.HashedName, with exactly
\* the given addresses; the rows with other names are unchanged; and on a
\* table that already holds that row with those addresses the call changes
\* nothing.
CreateIsUpsert ==
    [][(pc = "createWrite" /\ ret' = "nil") =>
           /\ HoldsAddressSet(db', call.ref.HashedName, call.addresses)
           /\ RowsNotNamed(db', call.ref.HashedName)
                  = RowsNotNamed(db, call.ref.HashedName)
           /\ HoldsAddressSet(db, call.ref.HashedName, call.addresses)
                  => db' = db]_vars

\* createAddressSet has succeeded on a table of two address sets, one of
\* them without addresses
CreatedAmongOthers ==
    /\ op = "create"
    /\ ret = "nil"
    /\ Len(db) = 2
    /\ db[1].addresses = {}
    /\ db[2].addresses # {}

\* the value of external-ids:name of a row
ExternalName(row) == row.externalIds[1].value

\* C24: every row of the table has name = hashForOVN(external-ids:name),
\* and no command changes the name or the external-ids of a row that is
\* there: external-ids:name is written when the row is created only.
NameTiedToDisplayName ==
    [][/\ \A i \in 1..Len(db') :
              /\ Len(db'[i].externalIds) = 1
              /\ db'[i].externalIds[1].key = NameKey
              /\ db'[i].name = hashForOVN(ExternalName(db'[i]))
       /\ \A i \in 1..Len(db), j \in 1..Len(db') :
              db[i].name = db'[j].name => db[i].externalIds = db'[j].externalIds]_vars

\* an address has been removed from one of two address sets
RemovedFromOneOfTwo ==
    op = "remove" /\ ret = "nil" /\ Len(db) = 2

\* the field is handed to iteratorFn: it starts with "name=" and the rest
\* parses
Usable(field) ==
    /\ HasPrefix(field, NamePrefix)
    /\ ~parseAddressSetRef(SubSeq(field, 6, Len(field))).nil

\* the number of usable fields among the first i of the output
UsableUpTo(i) == Cardinality({j \in 1..i : Usable(output[j])})

\* C25: forEachAddressSet returns an error, and has invoked iteratorFn for
\* nothing, if the find command fails; otherwise it returns nil and has
\* invoked iteratorFn with the non-nil ref of every field that starts with
\* "name=" and parses, in the order of the output, the other fields being
\* skipped.
ForEachFailsOnlyOnListing ==
    op = "forEach" =>
        IF ret = "error" THEN visited = <<>>
        ELSE /\ ret = "nil"
             /\ Len(visited) = UsableUpTo(Len(output))
             /\ \A k \in 1..Len(visited) : ~visited[k].nil
             /\ \A i \in 1..Len(output) :
                    Usable(output[i]) =>
                        visited[UsableUpTo(i)]
                            = parseAddressSetRef(SubSeq(output[i], 6, Len(output[i])))

\* a field was skipped and a later one handed to iteratorFn
VisitedAfterSkipped ==
    /\ op = "forEach"
    /\ ret = "nil"
    /\ \E i, j \in 1..Len(output) : i < j /\ ~Usable(output[i]) /\ Usable(output[j])

\* C23: when createAddressSet(ref, addresses) and another call on the same
\* ref have both returned, createAddressSet last, and the database was
\* reachable for every command, the table holds the row named
\* ref.HashedName with exactly the addresses createAddressSet was given.
CreateTakesEffectUnderInterleaving ==
    \A c \in Callers : \A o \in Callers \ {c} :
        (/\ Len(returns) = 2
         /\ returns[2] = c
         /\ callers[c].op = "create"
         /\ callers[o].ref = callers[c].ref
         /\ ~callers[c].unreachable
         /\ ~callers[o].unreachable)
            => HoldsAddressSet(db, callers[c].ref.HashedName, callers[c].addresses)

\* the node object parses to at least one hybrid overlay subnet
HasSubnets(node) ==
    \/ IsSingleCIDR(node.subnets)
    \/ IsCIDRList(node.subnets) /\ Len(node.subnets.value.items) >= 1

\* C26: an AddNode on a hybrid overlay node whose subnet annotation parses
\* to at least one subnet gets nothing from AllocateNetworks and leaves
\* the allocator and the subnet annotation of the node as they were.
AllocatedNodeLeftAlone ==
    [][\A n \in Nodes :
           (/\ AddNode(n)
            /\ IsHybridOverlayNode(nodeCache[n])
            /\ HasSubnets(nodeCache[n]))
               => /\ allocator' = allocator
                  /\ obtained' = {}
                  /\ apiNodes'[n].subnets = apiNodes[n].subnets]_vars

\* AddNode has returned nil on the only node, a hybrid overlay node with
\* subnets, without allocating
AddNodeOnAllocatedNode ==
    /\ op = "AddNode"
    /\ ret = "nil"
    /\ obtained = {}
    /\ \E n \in Nodes :
           /\ nodeCache[n].exists
           /\ IsHybridOverlayNode(nodeCache[n])
           /\ HasSubnets(nodeCache[n])
           /\ allocator = Elems(ParseHybridOverlayHostSubnets(nodeCache[n].subnets).subnets.elems)
           /\ \A m \in Nodes \ {n} : ~nodeCache[m].exists /\ ~apiNodes[m].exists

\* C27: an AddNode on a node that is not a hybrid overlay node leaves, when
\* it returns nil, the distributed router MAC annotation present exactly
\* if the node object has a parseable host subnet annotation; sets the
\* annotation only when the port had addresses already or has been created
\* and the exclude-IPs of the switch updated; deletes annotation and port
\* when the node object has the annotation but no subnet; and runs no OVN
\* command when the node object has both.
DRMACFollowsHostSubnet ==
    [][\A n \in Nodes :
           (AddNode(n) /\ ~IsHybridOverlayNode(nodeCache[n])) =>
               LET node == nodeCache[n]
               IN  /\ ret' = "nil" =>
                          (apiNodes'[n].drmac <=> node.hostSubnet = "valid")
                   /\ (apiNodes'[n].drmac /\ ~apiNodes[n].drmac) =>
                          \/ ovnPorts[n].port
                          \/ ovnPorts'[n].port /\ ovnPorts'[n].excludeIPs
                   /\ (ret' = "nil" /\ node.hostSubnet # "valid" /\ node.drmac) =>
                          ~apiNodes'[n].drmac /\ ~ovnPorts'[n].port
                   /\ (node.hostSubnet = "valid" /\ node.drmac) =>
                          ovnPorts' = ovnPorts]_vars

\* C28: waitForNamespace makes at most Steps lookups, one at a time; a
\* lookup that finds the namespace ends the wait with the namespace, a
\* NotFound is followed by another lookup unless it was the last of the
\* Steps, and then AddPod returns an error; any other lookup error makes
\* AddPod return an error at once; no lookup follows a returned AddPod or
\* a found namespace, and a lookup never annotates the pod.
WaitForNamespaceEnds ==
    [][/\ lookups' <= Steps
       /\ (pc = "waitForNamespace" /\ lookups > 0) => lookupResult = "notFound"
       /\ pc # "waitForNamespace" => lookups' = lookups
       /\ lookups' # lookups =>
              /\ lookups' = lookups + 1
              /\ pod' = pod
              /\ lookupResult' = "found" => pc' = "AddPod"
              /\ lookupResult' = "notFound" =>
                     IF lookups' < Steps THEN pc' = "waitForNamespace"
                     ELSE pc' = "done" /\ op' = "AddPod" /\ ret' = "error"
              /\ lookupResult' = "error" =>
                     pc' = "done" /\ op' = "AddPod" /\ ret' = "error"]_vars

\* the namespace was not found Steps times and AddPod has returned an error
GaveUpAfterSteps ==
    /\ op = "AddPod"
    /\ ret = "error"
    /\ lookups = Steps
    /\ lookupResult = "notFound"

\* the subnets in the subnet annotation of an existing node
SubnetsOfNode(n) ==
    IF ~apiNodes[n].exists THEN {}
    ELSE IF IsSingleCIDR(apiNodes[n].subnets) THEN {apiNodes[n].subnets.value.subnet}
    ELSE IF IsCIDRList(apiNodes[n].subnets)
    THEN {apiNodes[n].subnets.value.items[i].text.subnet :
             i \in 1..Len(apiNodes[n].subnets.value.items)}
    ELSE {}

\* C21: before any event is handled the subnets in the annotations of the
\* existing nodes are marked allocated, and in every state that node
\* workers running concurrently reach no subnet is in the subnet
\* annotation of two different existing nodes.
NoSharedSubnet ==
    /\ op = "none" => \A n \in Nodes : SubnetsOfNode(n) \subseteq allocator
    /\ \A n \in Nodes : \A m \in Nodes \ {n} :
           SubnetsOfNode(n) \cap SubnetsOfNode(m) = {}

\* two nodes have subnets while the workers of both are inside AddNode
TwoWorkersTwoSubnets ==
    /\ \A n \in Nodes : workers[n].at = "run" /\ ~workers[n].allocatedSubnets.nil
    /\ Cardinality(allocator) = 2

====
